---- MODULE Spec2Model ----
(***************************************************************************)
(* AIDM session coordinator.                                               *)
(*                                                                         *)
(* Two servers of the repository are modelled:                             *)
(*   "sio": aidm_server/blueprints/socketio_events.py (rooms, membership,  *)
(*          the streaming send_message handler);                           *)
(*   "srv": ai_dm/server.py (send_message with the pending-roll branch,    *)
(*          the REST /interact endpoint, the admin view of Session).       *)
(*                                                                         *)
(* Python values: a falsy id (None, 0, missing key) is NoId, a falsy text  *)
(* (None, "") is NoText, a text is a sequence of tokens.                   *)
(***************************************************************************)
EXTENDS Integers, Sequences, FiniteSets, TLC

\* ------------------------------------------------------------------ bounds
\* Chunks one generation stream yields at most.
MaxChunks == 2

\* ------------------------------------------------------------------ values
NoId == 0
NoText == <<>>

Sids == {"sidA", "sidB"}
SessionIds == {1, 2}
\* Rows of the Player table: player id -> campaign id.
PlayerRows == (1 :> 1) @@ (2 :> 1)
UnknownPlayer == 9
PlayerIds == DOMAIN PlayerRows \cup {UnknownPlayer}
\* Player.character_name
CharacterName == (1 :> "Aria") @@ (2 :> "Borin")
\* Player ids the clients of the room model present (NoId: none given).
RoomPlayers == {1, NoId}

VARIABLES
    \* ---- sio: socketio_events.py module state
    active_players,        \* session id -> set of player ids (the keys of the inner dict)
    socketio_connections,  \* sid -> <<session id, player id>> or <<>> (no entry)
    rooms,                 \* sid -> set of session ids (Socket.IO rooms of the connection)
    connected,             \* sids whose connection is open
    lastOp,                \* the handler that ran last, with its arguments
    lastEmitted,           \* the events that handler emitted, in order
    joined_broadcasts,     \* <<session, player>> -> player_joined broadcasts since the player last became absent
    joined_as              \* sid -> set of <<session, player>> (players with a row) the connection joined and did not leave

roomVars == <<active_players, socketio_connections, rooms, connected,
              lastOp, lastEmitted, joined_broadcasts, joined_as>>

VARIABLES
    \* ---- one slot per handler invocation (a greenlet/thread of either server)
    pc,                    \* slot -> position of the handler
    req,                   \* slot -> the request it handles
    dm_response_text,      \* slot -> text accumulated from the stream
    produced,              \* slot -> chunks the generator of the slot has yielded
    gen_state,             \* slot -> "open" | "failed" (the stream raised) | "n/a"
    failed,                \* slot -> a failure (stream, parse, persist) happened in the cycle
    session_obj,           \* slot -> the Session row as loaded by the slot (srv)
    found_epoch,           \* slot -> which opening of the pending roll the slot read (0: none)
    \* ---- what the servers sent
    room_events,           \* room -> events broadcast to it, in order
    sender_events,         \* slot -> events / HTTP answers sent to the caller alone
    gen_calls,             \* prompts handed to the generation boundary
    \* ---- sio entity store and graph
    sio_player_actions,    \* PlayerAction rows
    sio_log,               \* session id -> its SessionLogEntry rows, in timestamp order
    segments,              \* CampaignSegment.is_triggered per segment
    graph_on,              \* get_graph_db() returns a GraphDB
    graph_actions,         \* Action nodes
    graph_performed,       \* PERFORMED edges
    \* ---- srv entity store
    srv_player_actions,    \* PlayerAction rows
    srv_sessions,          \* session id -> [session_log, state_snapshot]
    roll_opens             \* how many times a pending roll was opened

procVars == <<pc, req, dm_response_text, produced, gen_state, failed, session_obj, found_epoch>>
outVars == <<room_events, sender_events, gen_calls>>
sioDb == <<sio_player_actions, sio_log, segments, graph_on, graph_actions, graph_performed>>
srvDb == <<srv_player_actions, srv_sessions, roll_opens>>
coordVars == <<procVars, outVars, sioDb, srvDb>>

VARIABLES
    \* ---- the narrative part of the graph (Neo4j) and the working memory
    graph_plotpoints,      \* PlotPoint nodes
    graph_impacts,         \* IMPACTS edges Action -> PlotPoint, with their weight
    graph_activates,       \* plot point -> number of its ACTIVATES links to a MajorEvent
    graph_npcs,            \* NPC nodes
    buffer,                \* RecentEventsBuffer.buffer
    capacity,              \* RecentEventsBuffer.capacity
    added,                 \* every event handed to add(), in order
    \* ---- the response controller
    raw_llm_output,        \* the text last handed to structure_response
    structured,            \* the dict it returned
    \* ---- sio: what Socket.IO put on the wire of each connection
    delivered,             \* sid -> the room-addressed events the connection received
    ever_joined,           \* sid -> the sessions whose room the connection ever entered
    \* ---- the World, Campaign and Player rows of the entity store
    entity_rows            \* their fields that the clients' requests do not carry

graphDb == <<graph_plotpoints, graph_impacts, graph_activates, graph_npcs>>
memVars == <<buffer, capacity, added>>
ctlVars == <<raw_llm_output, structured>>
wireVars == <<delivered, ever_joined>>
storeVars == <<graphDb, memVars, ctlVars, wireVars, entity_rows>>

vars == <<roomVars, coordVars, storeVars>>

\* ------------------------------------------------------------------ helpers
Ev(name, room, payload) == [name |-> name, room |-> room, payload |-> payload]

Names(evs) == {evs[i].name : i \in 1..Len(evs)}

\* get_player_data: None when the Player row does not exist.
get_player_data(player_id) == player_id \in DOMAIN PlayerRows

\* `player_id in active_players[session_id]`, the re-join test of handle_join_session.
AlreadyJoinedMut(session_id, player_id) == FALSE
AlreadyJoined(session_id, player_id) == player_id \in active_players[session_id]

\* The connection record that handle_disconnect cleans up after.
PoppedConnection(sid) == socketio_connections[sid]

NoOp == [op |-> "none", sid |-> "none", session_id |-> NoId, player_id |-> NoId,
         was_member |-> FALSE, changed |-> FALSE, joined |-> {}]

\* ------------------------------------------------------------------ sio: join / leave / disconnect
handle_join_session(sid, session_id, player_id) ==
    /\ sid \in connected
    /\ IF session_id = NoId
       THEN /\ lastEmitted' = <<Ev("error", "sender", NoId)>>
            /\ UNCHANGED <<active_players, socketio_connections, rooms, connected,
                           joined_broadcasts, joined_as>>
       ELSE /\ rooms' = [rooms EXCEPT ![sid] = @ \cup {session_id}]
            /\ socketio_connections' = [socketio_connections EXCEPT ![sid] = <<session_id, player_id>>]
            /\ joined_as' = [joined_as EXCEPT ![sid] =
                                IF get_player_data(player_id) THEN @ \cup {<<session_id, player_id>>} ELSE @]
            /\ UNCHANGED connected
            /\ IF AlreadyJoined(session_id, player_id)
               THEN /\ lastEmitted' = <<>>
                    /\ UNCHANGED <<active_players, joined_broadcasts>>
               ELSE IF get_player_data(player_id)
               THEN /\ active_players' = [active_players EXCEPT ![session_id] = @ \cup {player_id}]
                    /\ joined_broadcasts' = [joined_broadcasts EXCEPT ![<<session_id, player_id>>] = @ + 1]
                    /\ lastEmitted' = <<Ev("player_joined", session_id, player_id),
                                        Ev("active_players", session_id, NoId),
                                        Ev("new_message", session_id, NoId)>>
               ELSE /\ lastEmitted' = <<Ev("new_message", session_id, NoId)>>
                    /\ UNCHANGED <<active_players, joined_broadcasts>>
    /\ lastOp' = [op |-> "join", sid |-> sid, session_id |-> session_id, player_id |-> player_id,
                  was_member |-> (session_id # NoId /\ player_id \in active_players[session_id]),
                  changed |-> (active_players' # active_players),
                  joined |-> {}]

handle_leave_session(sid, session_id, player_id) ==
    /\ sid \in connected
    /\ IF session_id = NoId \/ player_id = NoId
       THEN /\ lastEmitted' = <<Ev("error", "sender", NoId)>>
            /\ UNCHANGED <<active_players, socketio_connections, rooms, connected,
                           joined_broadcasts, joined_as>>
       ELSE /\ rooms' = [rooms EXCEPT ![sid] = @ \ {session_id}]
            /\ joined_as' = [joined_as EXCEPT ![sid] = @ \ {<<session_id, player_id>>}]
            /\ socketio_connections' = [socketio_connections EXCEPT ![sid] = <<>>]
            /\ UNCHANGED connected
            /\ IF player_id \in active_players[session_id]
               THEN /\ active_players' = [active_players EXCEPT ![session_id] = @ \ {player_id}]
                    /\ joined_broadcasts' = [joined_broadcasts EXCEPT ![<<session_id, player_id>>] = 0]
                    /\ lastEmitted' = <<Ev("player_left", session_id, player_id),
                                        Ev("active_players", session_id, NoId)>>
               ELSE /\ lastEmitted' = <<>>
                    /\ UNCHANGED <<active_players, joined_broadcasts>>
    /\ lastOp' = [op |-> "leave", sid |-> sid, session_id |-> session_id, player_id |-> player_id,
                  was_member |-> (session_id # NoId /\ player_id \in active_players[session_id]),
                  changed |-> (active_players' # active_players),
                  joined |-> joined_as[sid]]

handle_disconnect(sid) ==
    /\ sid \in connected
    /\ connected' = connected \ {sid}
    /\ rooms' = [rooms EXCEPT ![sid] = {}]
    /\ joined_as' = [joined_as EXCEPT ![sid] = {}]
    /\ socketio_connections' = [socketio_connections EXCEPT ![sid] = <<>>]
    /\ LET info == PoppedConnection(sid) IN
       /\ IF info # <<>> /\ info[1] \in SessionIds /\ info[2] \in active_players[info[1]]
          THEN /\ active_players' = [active_players EXCEPT ![info[1]] = @ \ {info[2]}]
               /\ joined_broadcasts' = [joined_broadcasts EXCEPT ![<<info[1], info[2]>>] = 0]
               /\ lastEmitted' = <<Ev("player_left", info[1], info[2]),
                                   Ev("active_players", info[1], NoId)>>
          ELSE /\ lastEmitted' = <<>>
               /\ UNCHANGED <<active_players, joined_broadcasts>>
       /\ lastOp' = [op |-> "disconnect", sid |-> sid,
                     session_id |-> IF info = <<>> THEN NoId ELSE info[1],
                     player_id |-> IF info = <<>> THEN NoId ELSE info[2],
                     was_member |-> (info # <<>> /\ info[2] \in active_players[info[1]]),
                     changed |-> (active_players' # active_players),
                     joined |-> joined_as[sid]]

\* ------------------------------------------------------------------ specification of the rooms
RoomInit ==
    /\ active_players = [s \in SessionIds |-> {}]
    /\ socketio_connections = [sid \in Sids |-> <<>>]
    /\ rooms = [sid \in Sids |-> {}]
    /\ connected = Sids
    /\ lastOp = NoOp
    /\ lastEmitted = <<>>
    /\ joined_broadcasts = [sp \in SessionIds \X DOMAIN PlayerRows |-> 0]
    /\ joined_as = [sid \in Sids |-> {}]

JoinStep == /\ \E sid \in Sids, s \in SessionIds \cup {NoId}, p \in RoomPlayers :
                   handle_join_session(sid, s, p)
            /\ UNCHANGED <<coordVars, storeVars>>
LeaveStep == /\ \E sid \in Sids, s \in SessionIds \cup {NoId}, p \in RoomPlayers :
                    handle_leave_session(sid, s, p)
             /\ UNCHANGED <<coordVars, storeVars>>
DisconnectStep == /\ \E sid \in Sids : handle_disconnect(sid)
                  /\ UNCHANGED <<coordVars, storeVars>>

RoomNext == JoinStep \/ LeaveStep \/ DisconnectStep


\* ================================================================== coordinator
Procs == {"h1", "h2"}
UnknownSession == 7
\* Rows of the Session table of srv.
SrvSessionIds == {1}
SegmentIds == {1}
Rooms == ({"sio"} \X (SessionIds \cup {UnknownSession})) \cup ({"srv"} \X SrvSessionIds)

Request(kind, s, c, p, m, r) ==
    [kind |-> kind, session_id |-> s, campaign_id |-> c, world_id |-> 1,
     player_id |-> p, message |-> m, roll_result |-> r]
NoReq == Request("none", NoId, NoId, NoId, NoText, 0)

\* send_message payloads the clients of sio send.
SioRequests ==
    { Request("sio", 1, 1, 1, <<"look">>, 0),
      Request("sio", UnknownSession, 1, 2, <<"attack">>, 0),
      Request("sio", 1, 1, 1, NoText, 0),
      Request("sio", 1, 1, UnknownPlayer, <<"look">>, 0),
      Request("sio", 1, 2, 1, <<"look">>, 0) }
\* send_message payloads the clients of srv send.
SrvRequests ==
    { Request("srv", 1, 1, 2, <<"attack">>, 0),
      Request("srv", 1, 1, 1, <<"18">>, 18),
      Request("srv", UnknownSession, 1, 1, <<"look">>, 0),
      Request("srv", 1, 1, 1, NoText, 0),
      Request("srv", 1, 1, UnknownPlayer, <<"look">>, 0),
      Request("srv", 1, 2, 1, <<"look">>, 0) }
\* POST /sessions/<id>/interact bodies.
RestRequests ==
    { Request("rest", 1, 1, 1, <<"look">>, 0),
      Request("rest", 1, 1, 1, <<"18">>, 18),
      Request("rest", UnknownSession, 1, 1, <<"look">>, 0),
      Request("rest", 1, 1, UnknownPlayer, <<"look">>, 0) }

\* chunk.text values the generation service streams to sio.
SioRawChunks ==
    { <<" ", "b", " ">>,
      <<"<END_OF_STREAM:", "{", "a", "}", ">">>,
      <<"<END_OF_STREAM:", "a", ">">> }
\* chunk.text values the generation service streams to srv.
SrvRawChunks ==
    { <<" ", "DM:", "a", " ">>,
      <<"DM:">> }

\* ------------------------------------------------------------------ text
RECURSIVE LStrip(_)
LStrip(text) == IF text # <<>> /\ Head(text) = " " THEN LStrip(Tail(text)) ELSE text
RECURSIVE RStrip(_)
RStrip(text) == IF text # <<>> /\ text[Len(text)] = " "
                THEN RStrip(SubSeq(text, 1, Len(text) - 1)) ELSE text
\* str.strip()
Strip(text) == RStrip(LStrip(text))

Without(text, toks) == SelectSeq(text, LAMBDA x : x \notin toks)

\* chunk.replace("DM:", "").replace("DM: DM:", "").strip()
CleanChunk(chunk) == Strip(Without(chunk, {"DM:"}))

\* chunk.startswith("<END_OF_STREAM:")
IsEndOfStream(chunk) == chunk # <<>> /\ Head(chunk) = "<END_OF_STREAM:"
\* chunk.replace("<END_OF_STREAM:", "").replace(">", "")
EndOfStreamJson(chunk) == Without(chunk, {"<END_OF_STREAM:", ">"})
\* json.loads succeeds on an object, raises on anything else of the alphabet
JsonLoads(js) == Len(js) >= 2 /\ Head(js) = "{" /\ js[Len(js)] = "}"
\* structured_data.get('primary', '')
Primary(js) == SubSeq(js, 2, Len(js) - 1)

\* determine_roll_type: always None.
determine_roll_type(action_text) == FALSE

\* check_segment_trigger: always False.
check_segment_trigger(seg, campaign_id) == FALSE

\* CampaignSegment.campaign_id
SegmentCampaign == (1 :> 1)

RECURSIVE SeqOf(_)
SeqOf(S) == IF S = {} THEN <<>>
            ELSE LET x == CHOOSE x \in S : \A y \in S : x <= y IN <<x>> \o SeqOf(S \ {x})

\* ------------------------------------------------------------------ state of the entity stores
NullSnapshot == [null |-> TRUE, has_pending_roll |-> FALSE, original_action |-> NoText,
                 has_recap |-> FALSE]
\* json.loads(state_snapshot or '{}').get('pending_roll', {}).get('original_action')
OriginalAction(snapshot) ==
    IF snapshot.null \/ ~snapshot.has_pending_roll THEN NoText ELSE snapshot.original_action
\* state['pending_roll'] = {}; json.dumps(state)
ClearPendingRoll(snapshot) ==
    [snapshot EXCEPT !.null = FALSE, !.has_pending_roll = TRUE, !.original_action = NoText]

NoRow == [session_log |-> <<>>, state_snapshot |-> NullSnapshot]

Event(name, by, payload) == [name |-> name, by |-> by, payload |-> payload]
Emit(room, evs) == room_events' = [room_events EXCEPT ![room] = @ \o evs]
ToSender(p, name) == sender_events' = [sender_events EXCEPT ![p] = Append(@, name)]

EventsBy(room, p, name) ==
    SelectSeq(room_events[room], LAMBDA e : e.by = p /\ e.name = name)

\* The untriggered segments of the campaign whose trigger check passes.
UntriggeredMatching(campaign_id) ==
    {seg \in SegmentIds : /\ SegmentCampaign[seg] = campaign_id
                          /\ ~segments[seg]
                          /\ check_segment_trigger(seg, campaign_id)}

\* required_fields: all(data.get(field) for field in required_fields)
HasRequiredFields(r) ==
    /\ r.session_id # NoId /\ r.campaign_id # NoId /\ r.world_id # NoId
    /\ r.message # NoText /\ r.player_id # NoId

CoordInit ==
    /\ pc = [p \in Procs |-> "idle"]
    /\ req = [p \in Procs |-> NoReq]
    /\ dm_response_text = [p \in Procs |-> NoText]
    /\ produced = [p \in Procs |-> 0]
    /\ gen_state = [p \in Procs |-> "n/a"]
    /\ failed = [p \in Procs |-> FALSE]
    /\ session_obj = [p \in Procs |-> NoRow]
    /\ found_epoch = [p \in Procs |-> 0]
    /\ room_events = [r \in Rooms |-> <<>>]
    /\ sender_events = [p \in Procs |-> <<>>]
    /\ gen_calls = {}
    /\ sio_player_actions = <<>>
    /\ sio_log = [s \in SessionIds \cup {UnknownSession} |-> <<>>]
    /\ segments = [g \in SegmentIds |-> FALSE]
    /\ graph_on \in BOOLEAN
    /\ graph_actions = {}
    /\ graph_performed = {}
    /\ srv_player_actions = <<>>
    /\ srv_sessions = [s \in SrvSessionIds |-> NoRow]
    /\ roll_opens = 0

\* Bound on the openings of a pending roll through the admin view.
MaxRollOpens == 1

Finish(p, state) == pc' = [pc EXCEPT ![p] = state]

GenCall(p, input, previous, roll) ==
    [by |-> p, user_input |-> input, previous_attempt |-> previous, roll_result |-> roll]

\* An exception raised inside the try block of the END_OF_STREAM branch is
\* caught by its `except Exception`.
ParseFailureCaughtMut == FALSE
ParseFailureCaught == TRUE

\* ------------------------------------------------------------------ sio: send_message
\* Lines 96-219: validation, the PlayerAction row, the graph, the broadcast of
\* the action, the player log entry, the segments, dm_response_start.
\* g: what the stores do ("ok", "fail_create": create_action_node raises,
\* "fail_log": the commit of the player's log entry raises, "fail_momentum":
\* calculate_session_momentum raises).
sio_receive(p, r, g) ==
    /\ pc[p] = "idle"
    /\ req' = [req EXCEPT ![p] = r]
    /\ UNCHANGED <<dm_response_text, produced, failed, session_obj, found_epoch,
                   graph_on, srvDb>>
    /\ IF ~HasRequiredFields(r)
       THEN /\ ToSender(p, "error")
            /\ Finish(p, "rejected")
            /\ UNCHANGED <<gen_state, room_events, gen_calls, sio_player_actions, sio_log,
                           segments, graph_actions, graph_performed>>
       ELSE IF r.player_id \notin DOMAIN PlayerRows
       THEN \* player.name on None raises before the `if not player` test
            /\ Finish(p, "crashed")
            /\ UNCHANGED <<gen_state, room_events, sender_events, gen_calls,
                           sio_player_actions, sio_log, segments, graph_actions, graph_performed>>
       ELSE IF PlayerRows[r.player_id] # r.campaign_id
       THEN /\ ToSender(p, "error")
            /\ Finish(p, "rejected")
            /\ UNCHANGED <<gen_state, room_events, gen_calls, sio_player_actions, sio_log,
                           segments, graph_actions, graph_performed>>
       ELSE LET action_id == Len(sio_player_actions) + 1
                room == <<"sio", r.session_id>>
                row == [action_id |-> action_id, player_id |-> r.player_id,
                        session_id |-> r.session_id, action_text |-> r.message, by |-> p]
                entry == [session_id |-> r.session_id, entry_type |-> "player",
                          message |-> <<CharacterName[r.player_id], ": ">> \o r.message, by |-> p]
                fired == SeqOf(UntriggeredMatching(r.campaign_id))
            IN
            /\ sio_player_actions' = Append(sio_player_actions, row)
            /\ UNCHANGED sender_events
            /\ IF graph_on /\ g = "fail_create"
               THEN /\ Finish(p, "crashed")
                    /\ UNCHANGED <<gen_state, room_events, gen_calls, sio_log, segments,
                                   graph_actions, graph_performed>>
               ELSE /\ IF graph_on
                       THEN /\ graph_actions' = graph_actions \cup
                                   {[action_id |-> action_id, session_id |-> r.session_id]}
                            /\ graph_performed' = graph_performed \cup {<<r.player_id, action_id>>}
                       ELSE UNCHANGED <<graph_actions, graph_performed>>
                    /\ IF g = "fail_log"
                       THEN \* lines 159-174: new_message is out, the commit of the entry raises
                            /\ Emit(room, <<Event("new_message", p, r.message)>>)
                            /\ Finish(p, "crashed")
                            /\ UNCHANGED <<gen_state, gen_calls, sio_log, segments>>
                       ELSE /\ sio_log' = [sio_log EXCEPT ![r.session_id] = Append(@, entry) \o
                                            [i \in 1..Len(fired) |->
                                                [session_id |-> r.session_id, entry_type |-> "dm",
                                                 message |-> <<"**Segment Triggered**">>, by |-> p]]]
                            /\ segments' = [seg \in SegmentIds |->
                                                segments[seg] \/ seg \in UntriggeredMatching(r.campaign_id)]
                            /\ IF graph_on /\ g = "fail_momentum"
                               THEN /\ Emit(room, <<Event("new_message", p, r.message)>> \o
                                                  [i \in 1..Len(fired) |-> Event("segment_triggered", p, NoText)])
                                    /\ Finish(p, "crashed")
                                    /\ UNCHANGED <<gen_state, gen_calls>>
                               ELSE /\ Emit(room, <<Event("new_message", p, r.message)>> \o
                                                  [i \in 1..Len(fired) |-> Event("segment_triggered", p, NoText)] \o
                                                  <<Event("dm_response_start", p, NoText)>>)
                                    /\ gen_calls' = gen_calls \cup {GenCall(p, r.message, NoText, 0)}
                                    /\ gen_state' = [gen_state EXCEPT ![p] = "open"]
                                    /\ Finish(p, "sio_streaming")

\* Lines 224-255, one iteration: the generator (llm.py 188-192) yields
\* chunk.text.strip() and the handler relays or parses it.
sio_chunk(p, raw, persist_ok) ==
    /\ pc[p] = "sio_streaming" /\ gen_state[p] = "open" /\ produced[p] < MaxChunks
    /\ produced' = [produced EXCEPT ![p] = @ + 1]
    /\ UNCHANGED <<req, gen_state, session_obj, found_epoch, sender_events, gen_calls,
                   sio_player_actions, segments, graph_on, graph_actions, graph_performed, srvDb>>
    /\ LET chunk == Strip(raw)
           room == <<"sio", req[p].session_id>>
           js == EndOfStreamJson(chunk)
       IN
       IF IsEndOfStream(chunk)
       THEN /\ UNCHANGED dm_response_text
            /\ IF JsonLoads(js) /\ persist_ok
               THEN /\ Emit(room, <<Event("dm_structured_response", p, Primary(js))>>)
                    /\ sio_log' = [sio_log EXCEPT ![req[p].session_id] = Append(@,
                                    [session_id |-> req[p].session_id, entry_type |-> "dm",
                                     message |-> <<"DM: ">> \o Primary(js), by |-> p])]
                    /\ UNCHANGED <<failed, pc>>
               ELSE /\ failed' = [failed EXCEPT ![p] = TRUE]
                    /\ UNCHANGED sio_log
                    /\ IF ParseFailureCaught
                       THEN /\ Emit(room, IF JsonLoads(js)
                                          THEN <<Event("dm_structured_response", p, Primary(js)),
                                                 Event("error", p, NoText)>>
                                          ELSE <<Event("error", p, NoText)>>)
                            /\ UNCHANGED pc
                       ELSE /\ UNCHANGED room_events
                            /\ Finish(p, "crashed")
       ELSE /\ persist_ok
            /\ dm_response_text' = [dm_response_text EXCEPT ![p] = @ \o chunk]
            /\ Emit(room, <<Event("dm_chunk", p, chunk)>>)
            /\ UNCHANGED <<sio_log, failed, pc>>

\* llm.py 193-194: the stream raised; the generator yields the error text as
\* its last chunk, which the handler relays like any other.
sio_stream_error(p) ==
    /\ pc[p] = "sio_streaming" /\ gen_state[p] = "open"
    /\ gen_state' = [gen_state EXCEPT ![p] = "failed"]
    /\ failed' = [failed EXCEPT ![p] = TRUE]
    /\ dm_response_text' = [dm_response_text EXCEPT ![p] = @ \o <<"Error during streaming">>]
    /\ Emit(<<"sio", req[p].session_id>>, <<Event("dm_chunk", p, <<"Error during streaming">>)>>)
    /\ UNCHANGED <<pc, req, produced, session_obj, found_epoch, sender_events, gen_calls,
                   sioDb, srvDb>>

\* Lines 257-260: the generator is exhausted.
sio_end(p) ==
    /\ pc[p] = "sio_streaming"
    /\ Emit(<<"sio", req[p].session_id>>, <<Event("dm_response_end", p, NoText),
                                            Event("session_log_update", p, NoText)>>)
    /\ Finish(p, "done")
    /\ UNCHANGED <<req, dm_response_text, produced, gen_state, failed, session_obj, found_epoch,
                   sender_events, gen_calls, sioDb, srvDb>>

\* ------------------------------------------------------------------ srv: send_message
SrvEntry(p, r, dm) ==
    [player_label |-> CharacterName[r.player_id], user_input |-> r.message, dm |-> dm, by |-> p]

\* ai_dm/server.py 439-556: validation, the PlayerAction row, the session
\* lookup, the broadcast, the pending-roll branch, dm_response_start.
srv_receive(p, r) ==
    /\ pc[p] = "idle"
    /\ req' = [req EXCEPT ![p] = r]
    /\ UNCHANGED <<dm_response_text, produced, failed, sioDb, roll_opens>>
    /\ IF \/ ~HasRequiredFields(r)
          \/ r.player_id \notin DOMAIN PlayerRows
          \/ PlayerRows[r.player_id] # r.campaign_id
       THEN /\ ToSender(p, "error")
            /\ Finish(p, "rejected")
            /\ UNCHANGED <<gen_state, session_obj, found_epoch, room_events, gen_calls,
                           srv_player_actions, srv_sessions>>
       ELSE /\ srv_player_actions' = Append(srv_player_actions,
                    [player_id |-> r.player_id, session_id |-> r.session_id,
                     action_text |-> r.message, by |-> p])
            /\ IF r.session_id \notin SrvSessionIds
               THEN /\ ToSender(p, "error")
                    /\ Finish(p, "rejected")
                    /\ UNCHANGED <<gen_state, session_obj, found_epoch, room_events, gen_calls,
                                   srv_sessions>>
               ELSE LET row == srv_sessions[r.session_id]
                        original_action == OriginalAction(row.state_snapshot)
                        room == <<"srv", r.session_id>>
                    IN
                    /\ session_obj' = [session_obj EXCEPT ![p] = row]
                    /\ found_epoch' = [found_epoch EXCEPT ![p] =
                                          IF original_action # NoText THEN roll_opens ELSE 0]
                    /\ UNCHANGED sender_events
                    /\ IF r.roll_result # 0 /\ original_action # NoText
                       THEN \* line 494 reads world_id and campaign_id, locals assigned
                            \* only at lines 518-519: UnboundLocalError
                            /\ Emit(room, <<Event("new_message", p, r.message)>>)
                            /\ Finish(p, "crashed")
                            /\ UNCHANGED <<gen_state, gen_calls, srv_sessions>>
                       ELSE IF determine_roll_type(r.message)
                       THEN \* lines 545-556: the log is written, then emit() reads the
                            \* undefined name suggested_roll; except and finally run
                            /\ srv_sessions' = [srv_sessions EXCEPT ![r.session_id].session_log =
                                    row.session_log \o
                                    <<SrvEntry(p, r, <<"This action requires a roll before proceeding.">>)>>]
                            /\ Emit(room, <<Event("new_message", p, r.message),
                                            Event("dm_response_start", p, NoText),
                                            Event("error", p, NoText),
                                            Event("dm_response_end", p, NoText)>>)
                            /\ Finish(p, "done")
                            /\ UNCHANGED <<gen_state, gen_calls>>
                       ELSE /\ Emit(room, <<Event("new_message", p, r.message),
                                            Event("dm_response_start", p, NoText)>>)
                            /\ gen_calls' = gen_calls \cup {GenCall(p, r.message, NoText, 0)}
                            /\ gen_state' = [gen_state EXCEPT ![p] = "open"]
                            /\ Finish(p, "srv_streaming")
                            /\ UNCHANGED srv_sessions

\* Lines 559-567, one iteration: the generator (llm.py 322-326) yields
\* chunk.text.strip(); a non-empty chunk is cleaned, accumulated and relayed.
srv_chunk(p, raw) ==
    /\ pc[p] = "srv_streaming" /\ gen_state[p] = "open" /\ produced[p] < MaxChunks
    /\ produced' = [produced EXCEPT ![p] = @ + 1]
    /\ UNCHANGED <<pc, req, gen_state, failed, session_obj, found_epoch, sender_events,
                   gen_calls, sioDb, srvDb>>
    /\ LET yielded == Strip(raw)
           chunk == CleanChunk(yielded)
       IN
       IF yielded # NoText
       THEN /\ dm_response_text' = [dm_response_text EXCEPT ![p] = @ \o chunk]
            /\ Emit(<<"srv", req[p].session_id>>, <<Event("dm_chunk", p, chunk)>>)
       ELSE UNCHANGED <<dm_response_text, room_events>>

\* llm.py 327-329: the stream raised; the generator yields an apology as its
\* last chunk.
srv_stream_error(p) ==
    /\ pc[p] = "srv_streaming" /\ gen_state[p] = "open"
    /\ gen_state' = [gen_state EXCEPT ![p] = "failed"]
    /\ failed' = [failed EXCEPT ![p] = TRUE]
    /\ dm_response_text' = [dm_response_text EXCEPT ![p] = @ \o <<"I apologize">>]
    /\ Emit(<<"srv", req[p].session_id>>, <<Event("dm_chunk", p, <<"I apologize">>)>>)
    /\ UNCHANGED <<pc, req, produced, session_obj, found_epoch, sender_events, gen_calls,
                   sioDb, srvDb>>

\* Lines 569-587: the log is written from the row the handler loaded, then
\* session_log_update; except and finally.
srv_finish(p, persist_ok) ==
    /\ pc[p] = "srv_streaming"
    /\ Finish(p, "done")
    /\ UNCHANGED <<req, dm_response_text, produced, gen_state, session_obj, found_epoch,
                   sender_events, gen_calls, sioDb, srv_player_actions, roll_opens>>
    /\ LET room == <<"srv", req[p].session_id>>
           written == session_obj[p].session_log \o <<SrvEntry(p, req[p], dm_response_text[p])>>
       IN
       IF dm_response_text[p] = NoText
       THEN /\ persist_ok
            /\ Emit(room, <<Event("dm_response_end", p, NoText)>>)
            /\ UNCHANGED <<failed, srv_sessions>>
       ELSE IF persist_ok
       THEN /\ srv_sessions' = [srv_sessions EXCEPT ![req[p].session_id].session_log = written]
            /\ Emit(room, <<Event("session_log_update", p, NoText),
                            Event("dm_response_end", p, NoText)>>)
            /\ UNCHANGED failed
       ELSE /\ failed' = [failed EXCEPT ![p] = TRUE]
            /\ Emit(room, <<Event("error", p, NoText), Event("dm_response_end", p, NoText)>>)
            /\ UNCHANGED srv_sessions

\* ------------------------------------------------------------------ srv: POST /sessions/<id>/interact
\* Lines 191-226 and 241: checks, the Session row is loaded, the pending roll
\* is read; the handler then waits for the context queries (roll resolution)
\* or for the generation call.
handle_interaction_load(p, r) ==
    /\ pc[p] = "idle"
    /\ req' = [req EXCEPT ![p] = r]
    /\ UNCHANGED <<dm_response_text, produced, gen_state, failed, room_events, gen_calls,
                   sioDb, srvDb>>
    /\ IF \/ r.message = NoText \/ r.campaign_id = NoId \/ r.world_id = NoId \/ r.player_id = NoId
          \/ r.player_id \notin DOMAIN PlayerRows
          \/ r.session_id \notin SrvSessionIds
       THEN /\ ToSender(p, "error")
            /\ Finish(p, "rejected")
            /\ UNCHANGED <<session_obj, found_epoch>>
       ELSE LET row == srv_sessions[r.session_id]
                original_action == OriginalAction(row.state_snapshot)
            IN
            /\ session_obj' = [session_obj EXCEPT ![p] = row]
            /\ found_epoch' = [found_epoch EXCEPT ![p] =
                                  IF original_action # NoText THEN roll_opens ELSE 0]
            /\ UNCHANGED sender_events
            /\ IF r.roll_result # 0 /\ original_action # NoText
               THEN Finish(p, "rest_resolving")
               ELSE Finish(p, "rest_querying")

\* Lines 228-238: the roll is folded into the context, the pending roll is
\* cleared in the snapshot the handler read, committed, and the generation
\* runs on the original action.
handle_interaction_resolve(p) ==
    /\ pc[p] = "rest_resolving"
    /\ LET state == session_obj[p].state_snapshot IN
       /\ srv_sessions' = [srv_sessions EXCEPT ![req[p].session_id].state_snapshot =
                              ClearPendingRoll(state)]
       /\ gen_calls' = gen_calls \cup
             {GenCall(p, OriginalAction(state), OriginalAction(state), req[p].roll_result)}
    /\ ToSender(p, "dm_response")
    /\ Finish(p, "done")
    /\ UNCHANGED <<req, dm_response_text, produced, gen_state, failed, session_obj, found_epoch,
                   room_events, sioDb, srv_player_actions, roll_opens>>

\* Lines 241-267: the generation call returns; a roll request of the model is
\* passed to the caller, anything else is appended to the log of the row the
\* handler loaded.
handle_interaction_answer(p, answer) ==
    /\ pc[p] = "rest_querying"
    /\ gen_calls' = gen_calls \cup {GenCall(p, req[p].message, NoText, 0)}
    /\ Finish(p, "done")
    /\ UNCHANGED <<req, produced, gen_state, failed, session_obj, found_epoch,
                   room_events, sioDb, srv_player_actions, roll_opens>>
    /\ IF answer = <<"roll_request">>
       THEN /\ ToSender(p, "requires_roll")
            /\ UNCHANGED <<dm_response_text, srv_sessions>>
       ELSE /\ dm_response_text' = [dm_response_text EXCEPT ![p] = CleanChunk(answer)]
            /\ srv_sessions' = [srv_sessions EXCEPT ![req[p].session_id].session_log =
                    session_obj[p].session_log \o <<SrvEntry(p, req[p], CleanChunk(answer))>>]
            /\ ToSender(p, "dm_response")

\* ------------------------------------------------------------------ srv: admin view of Session
\* ModelView(Session): an administrator edits state_snapshot; the only
\* writer of a non-empty pending_roll in the repository.
admin_edit_session(s, action_text) ==
    /\ roll_opens < MaxRollOpens
    /\ roll_opens' = roll_opens + 1
    /\ srv_sessions' = [srv_sessions EXCEPT ![s].state_snapshot =
            [null |-> FALSE, has_pending_roll |-> TRUE, original_action |-> action_text,
             has_recap |-> FALSE]]
    /\ UNCHANGED <<procVars, outVars, sioDb, srv_player_actions>>

\* ------------------------------------------------------------------ srv: POST /sessions/<id>/end
\* ai_dm/server.py 269-293 (aidm_server/blueprints/sessions.py 36-70 writes
\* the same two keys): one query_gpt call over the log; state_snapshot is
\* replaced by json.dumps({"recap", "ended_at"}). ok: the call returned.
end_game_session(s, ok) ==
    /\ IF s \notin SrvSessionIds
       THEN UNCHANGED <<gen_calls, srv_sessions>>
       ELSE /\ gen_calls' = gen_calls \cup {GenCall("end_game_session", <<"recap">>, NoText, 0)}
            /\ IF ok
               THEN srv_sessions' = [srv_sessions EXCEPT ![s].state_snapshot =
                        [null |-> FALSE, has_pending_roll |-> FALSE, original_action |-> NoText,
                         has_recap |-> TRUE]]
               ELSE UNCHANGED srv_sessions
    /\ UNCHANGED <<procVars, room_events, sender_events, sioDb, srv_player_actions, roll_opens>>

\* ------------------------------------------------------------------ sio: PUT /segments/<id>
UnknownSegment == 8

\* segments.py 77-100: the fields present in the body are written; given
\* says whether the body holds is_triggered, flag is its value.
update_segment(segment_id, given, flag) ==
    /\ IF segment_id \in SegmentIds /\ given
       THEN segments' = [segments EXCEPT ![segment_id] = flag]
       ELSE UNCHANGED segments
    /\ UNCHANGED <<procVars, outVars, sio_player_actions, sio_log, graph_on, graph_actions,
                   graph_performed, srvDb>>

\* ------------------------------------------------------------------ sio: the graph store (graph_db.py)
ActionIds == {1, 2}
PlotPointIds == {1, 2}
NpcIds == {1}
GraphSessions == {1, 2}
Weights == {1, 2}
Volatilities == {1, 3}
DefaultVolatility == 1
NoTitle == "none"
Titles == {NoTitle, "t"}
NpcNames == {"a", "b"}
DecayRates == {1, 2}
Thresholds == {2, 5}
CascadeThreshold == 5

\* The graph as the queries see it.
Graph(actions, plotpoints, impacts, activates) ==
    [actions |-> actions, plotpoints |-> plotpoints, impacts |-> impacts, activates |-> activates]
TheGraph == Graph(graph_actions, graph_plotpoints, graph_impacts, graph_activates)

\* MERGE (n:Label {key: $id}): the nodes the pattern matches.
MatchingNodesMut(nodes, key, id) == {}
MatchingNodes(nodes, key, id) == {n \in nodes : n[key] = id}

\* Lines 282-301: MERGE (a:Action {action_id}) SET a.session_id, ...
create_action_node(G, action_id, session_id) ==
    LET found == MatchingNodes(G.actions, "action_id", action_id)
        node == [action_id |-> action_id, session_id |-> session_id]
    IN [G EXCEPT !.actions = (@ \ found) \cup {node}]

\* Lines 242-262: MERGE (pp:PlotPoint {plotpoint_id}) SET pp.volatility and
\* each keyword property given (title; NoTitle: not given).
create_plotpoint(G, plotpoint_id, volatility, title) ==
    LET found == MatchingNodes(G.plotpoints, "plotpoint_id", plotpoint_id)
        fresh == [plotpoint_id |-> plotpoint_id, volatility |-> volatility, title |-> title]
        set(n) == [n EXCEPT !.volatility = volatility,
                            !.title = IF title = NoTitle THEN @ ELSE title]
    IN [G EXCEPT !.plotpoints = IF found = {} THEN @ \cup {fresh}
                                ELSE (@ \ found) \cup {set(n) : n \in found}]

\* Lines 58-74: MERGE (n:NPC {npc_id}) SET n.name, n.role
create_npc_node(npcs, npc_id, name, role) ==
    LET found == MatchingNodes(npcs, "npc_id", npc_id)
    IN (npcs \ found) \cup {[npc_id |-> npc_id, name |-> name, role |-> role]}

\* Lines 264-280: MATCH the two nodes, MERGE (a)-[r:IMPACTS]->(pp), SET r.weight
link_action_to_plotpoint(G, action_id, plotpoint_id, weight) ==
    IF \/ MatchingNodes(G.actions, "action_id", action_id) = {}
       \/ MatchingNodes(G.plotpoints, "plotpoint_id", plotpoint_id) = {}
    THEN G
    ELSE LET old == {e \in G.impacts : e.action_id = action_id /\ e.plotpoint_id = plotpoint_id}
         IN [G EXCEPT !.impacts = (@ \ old) \cup
                 {[action_id |-> action_id, plotpoint_id |-> plotpoint_id, weight |-> weight]}]

\* MATCH (a:Action)-[r:IMPACTS]->(pp:PlotPoint): r starts at a and ends at pp
JoinedMut(a, e, pp) == e.plotpoint_id = pp.plotpoint_id
Joined(a, e, pp) == a.action_id = e.action_id /\ e.plotpoint_id = pp.plotpoint_id
ImpactRows(G) == {row \in G.actions \X G.impacts \X G.plotpoints : Joined(row[1], row[2], row[3])}

\* sum(r.weight * pp.volatility) over rows
RECURSIVE SumRows(_)
SumRows(rows) ==
    IF rows = {} THEN 0
    ELSE LET row == CHOOSE row \in rows : TRUE
         IN row[2].weight * row[3].volatility + SumRows(rows \ {row})

\* WHERE a.session_id = $session_id
InSessionMut(a, session_id) == TRUE
InSession(a, session_id) == a.session_id = session_id

\* Lines 319-332
calculate_session_momentum(G, session_id) ==
    SumRows({row \in ImpactRows(G) : InSession(row[1], session_id)})

\* MERGE (pp)-[tr:ACTIVATES]->(me:MajorEvent {...}): the pattern exists for pp
HasActivatesMut(G, plotpoint_id) == FALSE
HasActivates(G, plotpoint_id) == G.activates[plotpoint_id] > 0

\* WITH pp, sum(r.weight * pp.volatility) AS momentum WHERE momentum > $threshold
OverThreshold(G, session_id, threshold) ==
    LET rows == {row \in ImpactRows(G) : row[1].session_id = session_id}
    IN {row[3].plotpoint_id : row \in
            {r \in rows : SumRows({q \in rows : q[3] = r[3]}) > threshold}}

\* Lines 334-347
cascade_triggers(G, session_id, threshold) ==
    [G EXCEPT !.activates = [pp \in PlotPointIds |->
        IF pp \in OverThreshold(G, session_id, threshold) /\ ~HasActivates(G, pp)
        THEN @[pp] + 1 ELSE @[pp]]]

\* Lines 349-362. The query puts WHERE after SET, which the Cypher parser
\* rejects: run_query raises and the graph is as it was. Read as written
\* (decay, then delete below zero) it is the second outcome.
DecayAsWritten(G, decay_rate) ==
    [G EXCEPT !.impacts = {[e EXCEPT !.weight = @ - decay_rate] :
                              e \in {x \in @ : x.weight - decay_rate >= 0}}]
decay_relationships(G, decay_rate) == {G, DecayAsWritten(G, decay_rate)}

\* ------------------------------------------------------------------ sio: RecentEventsBuffer (context_engine.py)
MaxAdds == 4
MaxCapacity == 3
DefaultCapacity == 15
BufferEvents == {"e1", "e2"}

\* self.buffer.pop(0)
EvictMut(buf) == SubSeq(buf, 1, Len(buf) - 1)
Evict(buf) == Tail(buf)

\* Lines 19-21
RecentEventsBuffer(c) ==
    /\ capacity' = c
    /\ buffer' = <<>>
    /\ added' = <<>>

\* Lines 23-26
add(event) ==
    /\ Len(added) < MaxAdds
    /\ added' = Append(added, event)
    /\ buffer' = IF Len(Append(buffer, event)) > capacity
                 THEN Evict(Append(buffer, event))
                 ELSE Append(buffer, event)
    /\ UNCHANGED capacity

\* ------------------------------------------------------------------ sio: DMResponseController (response_controller.py)
\* Longest raw text handed to the controller.
MaxRawLen == 4
\* Tokens of a raw text: a word, and the markers the controller's comments name.
RawTokens == {"a", "[ACTION]", "[TRIGGER]"}
RECURSIVE TextsUpTo(_)
TextsUpTo(n) ==
    IF n = 0 THEN {<<>>}
    ELSE LET shorter == TextsUpTo(n - 1)
         IN shorter \cup {Append(s, tok) : s \in shorter, tok \in RawTokens}
RawTexts == TextsUpTo(MaxRawLen)

\* Lines 36-41: returns the text
_extract_main_narrative(text) == text
\* Lines 43-49, 51-56, 58-62: return []
_parse_game_actions(text) == <<>>
_identify_segment_hooks(text) == <<>>
_track_new_objects(text) == <<>>
\* Lines 22-34
structure_response(raw) ==
    [primary |-> _extract_main_narrative(raw),
     mechanics |-> _parse_game_actions(raw),
     triggers |-> _identify_segment_hooks(raw),
     entities |-> _track_new_objects(raw),
     fallback |-> raw]

StoreInit ==
    /\ graph_plotpoints = {}
    /\ graph_impacts = {}
    /\ graph_activates = [pp \in PlotPointIds |-> 0]
    /\ graph_npcs = {}
    /\ buffer = <<>>
    /\ capacity = DefaultCapacity
    /\ added = <<>>
    /\ raw_llm_output = NoText
    /\ structured = structure_response(NoText)
    /\ delivered = [sid \in Sids |-> {}]
    /\ ever_joined = [sid \in Sids |-> {}]
    /\ entity_rows = [world_description |-> "d0", campaign_current_quest |-> "q0",
                      player_level |-> 1]

\* ------------------------------------------------------------------ sio: ContextEngine (context_engine.py)
ClassicalTone == "Keep responses in a classical fantasy tone with moderate detail."
\* Lines 126-127: the style guide of the context, for any session
_get_narrative_style_prefs(G, session_id) == ClassicalTone

\* ------------------------------------------------------------------ specifications
Terminal == {"done", "rejected", "crashed"}
GraphOutcomes == {"ok", "fail_create", "fail_log", "fail_momentum"}
RestAnswers == {<<"roll_request">>, <<"DM:", "a">>}

\* One handler, every input: the slot h1.
InTurn(p) == p = "h1"

SioReceive == /\ \E p \in Procs, r \in SioRequests, g \in GraphOutcomes :
                    InTurn(p) /\ (g \in {"ok", "fail_log"} \/ graph_on) /\ sio_receive(p, r, g)
              /\ UNCHANGED <<roomVars, storeVars>>
SioChunk == /\ \E p \in Procs, raw \in SioRawChunks, ok \in BOOLEAN : sio_chunk(p, raw, ok)
            /\ UNCHANGED <<roomVars, storeVars>>
SioStreamError == /\ \E p \in Procs : sio_stream_error(p)
                  /\ UNCHANGED <<roomVars, storeVars>>
SioEnd == /\ \E p \in Procs : sio_end(p)
          /\ UNCHANGED <<roomVars, storeVars>>
SrvReceive == /\ \E p \in Procs, r \in SrvRequests : InTurn(p) /\ srv_receive(p, r)
              /\ UNCHANGED <<roomVars, storeVars>>
SrvChunk == /\ \E p \in Procs, raw \in SrvRawChunks : srv_chunk(p, raw)
            /\ UNCHANGED <<roomVars, storeVars>>
SrvStreamError == /\ \E p \in Procs : srv_stream_error(p)
                  /\ UNCHANGED <<roomVars, storeVars>>
SrvFinish == /\ \E p \in Procs, ok \in BOOLEAN : srv_finish(p, ok)
             /\ UNCHANGED <<roomVars, storeVars>>
RestLoad == /\ \E p \in Procs, r \in RestRequests : InTurn(p) /\ handle_interaction_load(p, r)
            /\ UNCHANGED <<roomVars, storeVars>>
RestResolve == /\ \E p \in Procs : handle_interaction_resolve(p)
               /\ UNCHANGED <<roomVars, storeVars>>
RestAnswer == /\ \E p \in Procs, answer \in RestAnswers : handle_interaction_answer(p, answer)
              /\ UNCHANGED <<roomVars, storeVars>>
AdminEdit == /\ \E s \in SrvSessionIds : admin_edit_session(s, <<"attack">>)
             /\ UNCHANGED <<roomVars, storeVars>>

Init == RoomInit /\ CoordInit /\ StoreInit

Next == \/ SioReceive \/ SioChunk \/ SioStreamError \/ SioEnd
        \/ SrvReceive \/ SrvChunk \/ SrvStreamError \/ SrvFinish
        \/ RestLoad \/ RestResolve \/ RestAnswer
        \/ AdminEdit

Spec == Init /\ [][Next]_vars

\* A handler that has started runs on: its greenlet is scheduled again after
\* every yield, and the stream it reads is finite.
HandlerStep(p) ==
    \/ \E raw \in SioRawChunks, ok \in BOOLEAN : sio_chunk(p, raw, ok)
    \/ sio_stream_error(p)
    \/ sio_end(p)
    \/ \E raw \in SrvRawChunks : srv_chunk(p, raw)
    \/ srv_stream_error(p)
    \/ \E ok \in BOOLEAN : srv_finish(p, ok)
    \/ handle_interaction_resolve(p)
    \/ \E answer \in RestAnswers : handle_interaction_answer(p, answer)

FairSpec == Spec /\ \A p \in Procs : WF_vars(HandlerStep(p) /\ UNCHANGED <<roomVars, storeVars>>)

SpecRoom == Init /\ [][RoomNext]_vars

\* Two concurrent handlers of one server. The slots are interchangeable: h2
\* is taken only once h1 is.
MayStart(p) == p = "h1" \/ pc["h1"] # "idle"

RaceSioRequests == {r \in SioRequests : HasRequiredFields(r) /\ r.player_id = 1 /\ r.campaign_id = 1}
                   \cup {Request("sio", 2, 1, 2, <<"attack">>, 0)}
RaceSioReceive == /\ \E p \in Procs, r \in RaceSioRequests : MayStart(p) /\ sio_receive(p, r, "ok")
                  /\ UNCHANGED <<roomVars, storeVars>>
RaceSioChunk == /\ \E p \in Procs : sio_chunk(p, <<" ", "b", " ">>, TRUE)
                /\ UNCHANGED <<roomVars, storeVars>>

RaceSioNext == RaceSioReceive \/ RaceSioChunk \/ SioStreamError \/ SioEnd
SpecSioRace == Init /\ [][RaceSioNext]_vars

\* The same handlers with the segment endpoint of the entity store.
UpdateSegment == /\ \E seg \in SegmentIds \cup {UnknownSegment}, given \in BOOLEAN, flag \in BOOLEAN :
                        update_segment(seg, given, flag)
                 /\ UNCHANGED <<roomVars, storeVars>>
SpecSegments == Init /\ [][RaceSioNext \/ UpdateSegment]_vars

RaceSrvReceive == /\ \E p \in Procs, r \in {q \in SrvRequests : HasRequiredFields(q) /\ q.session_id = 1
                                                                /\ q.player_id \in DOMAIN PlayerRows
                                                                /\ q.campaign_id = 1} :
                        MayStart(p) /\ srv_receive(p, r)
                  /\ UNCHANGED <<roomVars, storeVars>>
RaceSrvChunk == /\ \E p \in Procs : srv_chunk(p, <<" ", "DM:", "a", " ">>)
                /\ UNCHANGED <<roomVars, storeVars>>
RaceSrvFinish == /\ \E p \in Procs : srv_finish(p, TRUE)
                 /\ UNCHANGED <<roomVars, storeVars>>
RaceRestLoad == /\ \E p \in Procs, r \in {q \in RestRequests : q.session_id = 1 /\ q.player_id = 1} :
                        MayStart(p) /\ handle_interaction_load(p, r)
                /\ UNCHANGED <<roomVars, storeVars>>

RaceSrvNext == \/ RaceSrvReceive \/ RaceSrvChunk \/ RaceSrvFinish
               \/ RaceRestLoad \/ RestResolve \/ RestAnswer
               \/ AdminEdit
SpecSrvRace == Init /\ [][RaceSrvNext]_vars

\* ---- the graph store on its own: GraphDB methods as the handlers and the
\* narrative endpoints call them. The handler specifications above leave the
\* store alone: without IMPACTS edges the momentum is 0 and lines 208-209
\* of the handler do nothing.
graphRest == <<roomVars, procVars, outVars, sio_player_actions, sio_log, segments, graph_on,
               graph_performed, srvDb, graph_npcs, memVars, ctlVars, wireVars, entity_rows>>
SetGraph(G) ==
    /\ graph_actions' = G.actions
    /\ graph_plotpoints' = G.plotpoints
    /\ graph_impacts' = G.impacts
    /\ graph_activates' = G.activates
    /\ UNCHANGED graphRest

CreateActionNode == \E id \in ActionIds, s \in GraphSessions :
                        SetGraph(create_action_node(TheGraph, id, s))
CreatePlotpoint == \E pp \in PlotPointIds, v \in Volatilities :
                        SetGraph(create_plotpoint(TheGraph, pp, v, NoTitle))
LinkActionToPlotpoint == \E id \in ActionIds, pp \in PlotPointIds, w \in Weights :
                        SetGraph(link_action_to_plotpoint(TheGraph, id, pp, w))
CascadeTriggers == \E s \in GraphSessions, th \in Thresholds :
                        SetGraph(cascade_triggers(TheGraph, s, th))
DecayRelationships == \E rate \in DecayRates : \E G \in decay_relationships(TheGraph, rate) :
                        SetGraph(G)
\* socketio_events.py lines 205-209
MomentumCheck == \E s \in GraphSessions :
                        IF calculate_session_momentum(TheGraph, s) > CascadeThreshold
                        THEN SetGraph(cascade_triggers(TheGraph, s, CascadeThreshold))
                        ELSE SetGraph(TheGraph)

GraphNext == \/ CreateActionNode \/ CreatePlotpoint \/ LinkActionToPlotpoint
             \/ CascadeTriggers \/ DecayRelationships \/ MomentumCheck
SpecGraph == Init /\ [][GraphNext]_vars

\* ---- node upserts with every attribute they take
UpsertPlotpoint == \E pp \in PlotPointIds, v \in Volatilities, title \in Titles :
                        SetGraph(create_plotpoint(TheGraph, pp, v, title))
UpsertNpc == /\ \E id \in NpcIds, name \in NpcNames, role \in NpcNames :
                        graph_npcs' = create_npc_node(graph_npcs, id, name, role)
             /\ UNCHANGED <<roomVars, coordVars, graph_plotpoints, graph_impacts, graph_activates,
                            memVars, ctlVars, wireVars, entity_rows>>
SpecUpsert == Init /\ [][CreateActionNode \/ UpsertPlotpoint \/ UpsertNpc]_vars

\* ---- one RecentEventsBuffer
NewBuffer == /\ \E c \in 0..MaxCapacity : RecentEventsBuffer(c)
             /\ UNCHANGED <<roomVars, coordVars, graphDb, ctlVars, wireVars, entity_rows>>
Add == /\ \E event \in BufferEvents : add(event)
       /\ UNCHANGED <<roomVars, coordVars, graphDb, ctlVars, wireVars, entity_rows>>
SpecBuffer == Init /\ [][NewBuffer \/ Add]_vars

\* ---- the response controller on its own
StructureResponse == /\ \E raw \in RawTexts :
                            /\ raw_llm_output' = raw
                            /\ structured' = structure_response(raw)
                     /\ UNCHANGED <<roomVars, coordVars, graphDb, memVars, wireVars, entity_rows>>
SpecController == Init /\ [][StructureResponse]_vars

\* ---- rooms and handlers together: what each connection receives
\* The connection that sent the request a slot handles (request.sid).
SenderOf == [p \in Procs |-> IF p = "h1" THEN "sidA" ELSE "sidB"]
\* send_message payloads: either session of one campaign.
CycleRequests == {Request("sio", 1, 1, 1, <<"look">>, 0), Request("sio", 2, 1, 2, <<"attack">>, 0)}

\* emit(..., room=str(session_id)): Socket.IO hands the event to the
\* connections that are in the room when it is emitted.
InRoomMut(sid, session_id, conn, rms) == sid \in conn
InRoom(sid, session_id, conn, rms) == sid \in conn /\ session_id \in rms[sid]

\* handle_disconnect and handle_leave_session touch the two module dicts
\* and the room of the connection; the greenlet of a running
\* handle_send_message is not among the things they touch.
CancelsCycleMut(sid, p) == SenderOf[p] = sid
CancelsCycle(sid, p) == FALSE

Received(session_id, name, by, idx) == [room |-> session_id, name |-> name, by |-> by, idx |-> idx]

\* The events a handler step appended to the rooms reach the connections
\* in the room; new_message is emitted with include_self=False (line 162).
DeliverRoom(p) ==
    delivered' = [sid \in Sids |-> delivered[sid] \cup
        UNION {{Received(room[2], room_events'[room][i].name, p, i) :
                    i \in {j \in (Len(room_events[room]) + 1)..Len(room_events'[room]) :
                              /\ InRoom(sid, room[2], connected, rooms)
                              /\ ~(room_events'[room][j].name = "new_message"
                                   /\ sid = SenderOf[p])}} :
               room \in {r \in Rooms : r[1] = "sio"}}]

\* The room-addressed events of join, leave and disconnect, emitted after
\* join_room / leave_room took effect.
DeliverLast ==
    delivered' = [sid \in Sids |-> delivered[sid] \cup
        {Received(lastEmitted'[i].room, lastEmitted'[i].name, "room", 0) :
            i \in {j \in 1..Len(lastEmitted') :
                      /\ lastEmitted'[j].name # "error"
                      /\ InRoom(sid, lastEmitted'[j].room, connected', rooms')}}]

\* A departure of a connection, and what it does to the running handlers.
Departure(sid) ==
    /\ pc' = [p \in Procs |-> IF CancelsCycle(sid, p) /\ pc[p] = "sio_streaming"
                              THEN "cancelled" ELSE pc[p]]
    /\ UNCHANGED <<req, dm_response_text, produced, gen_state, failed, session_obj, found_epoch,
                   outVars, sioDb, srvDb, graphDb, memVars, ctlVars, ever_joined,
                   entity_rows>>

\* A client joins the one session it opened and leaves a room it is in.
CycleJoin == \E sid \in Sids, s \in SessionIds :
                /\ ever_joined[sid] = {}
                /\ handle_join_session(sid, s, 1)
                /\ ever_joined' = [ever_joined EXCEPT ![sid] = @ \cup {s}]
                /\ DeliverLast
                /\ UNCHANGED <<coordVars, graphDb, memVars, ctlVars, entity_rows>>
CycleLeave == \E sid \in Sids, s \in SessionIds :
                /\ s \in rooms[sid]
                /\ handle_leave_session(sid, s, 1)
                /\ DeliverLast
                /\ Departure(sid)
CycleDisconnect == \E sid \in Sids :
                /\ handle_disconnect(sid)
                /\ DeliverLast
                /\ Departure(sid)
CycleReceive == \E p \in Procs, r \in CycleRequests, g \in {"ok", "fail_log"} :
                /\ InTurn(p)
                /\ sio_receive(p, r, g)
                /\ DeliverRoom(p)
                /\ UNCHANGED <<roomVars, graphDb, memVars, ctlVars, ever_joined, entity_rows>>
CycleChunk == \E p \in Procs, raw \in {<<" ", "b", " ">>, <<"<END_OF_STREAM:", "{", "a", "}", ">">>} :
                /\ sio_chunk(p, raw, TRUE)
                /\ DeliverRoom(p)
                /\ UNCHANGED <<roomVars, graphDb, memVars, ctlVars, ever_joined, entity_rows>>
CycleEnd == \E p \in Procs :
                /\ sio_end(p)
                /\ DeliverRoom(p)
                /\ UNCHANGED <<roomVars, graphDb, memVars, ctlVars, ever_joined, entity_rows>>

CycleNext == \/ CycleJoin \/ CycleLeave \/ CycleDisconnect
             \/ CycleReceive \/ CycleChunk \/ CycleEnd
SpecRoomCycle == Init /\ [][CycleNext]_vars

\* ---- the handlers of srv with the end of the session
EndGameSession == /\ \E s \in SrvSessionIds \cup {UnknownSession}, ok \in BOOLEAN :
                        end_game_session(s, ok)
                  /\ UNCHANGED <<roomVars, storeVars>>
SpecSrvEnd == Init /\ [][RaceSrvNext \/ EndGameSession]_vars

\* ---- the core (join, leave, disconnect, send_message of both servers)
\* beside an endpoint that edits a campaign
\* None of the handlers assigns a field of a World, Campaign or Player
\* object: what a handler leaves of those rows.
EntityAfterMut(rows) == [rows EXCEPT !.player_level = 2]
EntityAfter(rows) == rows
\* ai_dm/server.py 395-409: POST /campaigns/<id>/story
update_campaign_story(quest) ==
    /\ entity_rows' = [entity_rows EXCEPT !.campaign_current_quest = quest]
    /\ UNCHANGED <<roomVars, coordVars, graphDb, memVars, ctlVars, wireVars>>

CoreFrame ==
    /\ entity_rows' = EntityAfter(entity_rows)
    /\ UNCHANGED <<graphDb, memVars, ctlVars, wireVars>>
CoreRoom == /\ \E sid \in {"sidA"}, s \in {1} :
                \/ handle_join_session(sid, s, 1)
                \/ handle_leave_session(sid, s, 1)
                \/ handle_disconnect(sid)
            /\ CoreFrame /\ UNCHANGED coordVars
CoreSio == /\ \E p \in Procs :
                \/ \E r \in CycleRequests, g \in {"ok", "fail_log"} : InTurn(p) /\ sio_receive(p, r, g)
                \/ \E raw \in SioRawChunks : sio_chunk(p, raw, TRUE)
                \/ sio_end(p)
           /\ CoreFrame /\ UNCHANGED roomVars
CoreSrv == /\ \E p \in Procs :
                \/ \E r \in {q \in SrvRequests : HasRequiredFields(q) /\ q.session_id = 1} :
                        InTurn(p) /\ srv_receive(p, r)
                \/ \E raw \in SrvRawChunks : srv_chunk(p, raw)
                \/ srv_finish(p, TRUE)
           /\ CoreFrame /\ UNCHANGED roomVars
UpdateCampaignStory == \E quest \in {"q0", "q1"} : update_campaign_story(quest)
CoreNext == CoreRoom \/ CoreSio \/ CoreSrv \/ UpdateCampaignStory
SpecCore == Init /\ [][CoreNext]_vars

\* ---- two handlers of different sessions, interleaved, and the rooms
IsolationRequest == [p \in Procs |-> IF p = "h1" THEN Request("sio", 1, 1, 1, <<"look">>, 0)
                                     ELSE Request("sio", 2, 1, 2, <<"attack">>, 0)]
IsolationReceive == \E p \in Procs :
                /\ sio_receive(p, IsolationRequest[p], "ok")
                /\ DeliverRoom(p)
                /\ UNCHANGED <<roomVars, graphDb, memVars, ctlVars, ever_joined, entity_rows>>
IsolationChunk == \E p \in Procs :
                /\ produced[p] = 0
                /\ sio_chunk(p, <<" ", "b", " ">>, TRUE)
                /\ DeliverRoom(p)
                /\ UNCHANGED <<roomVars, graphDb, memVars, ctlVars, ever_joined, entity_rows>>
IsolationNext == \/ CycleJoin \/ CycleLeave \/ CycleDisconnect
                 \/ IsolationReceive \/ IsolationChunk \/ CycleEnd
SpecIsolation == Init /\ [][IsolationNext]_vars

\* ================================================================== claims

\* What a handler has put on the wire, and what it has left in the stores.
EmittedBy(p, name) == \E room \in Rooms : EventsBy(room, p, name) # <<>>
OpenCycle(p, room) ==
    Len(EventsBy(room, p, "dm_response_start")) > Len(EventsBy(room, p, "dm_response_end"))
RECURSIVE Concat(_)
Concat(texts) == IF texts = <<>> THEN <<>> ELSE Head(texts) \o Concat(Tail(texts))
ChunksRelayedBy(p) ==
    LET room == <<req[p].kind, req[p].session_id>>
        evs == EventsBy(room, p, "dm_chunk")
    IN Concat([i \in 1..Len(evs) |-> evs[i].payload])
\* The texts of the 'dm' entries the handler persisted, without the "DM: " label.
DmEntriesBy(p) ==
    IF req[p].kind = "sio"
    THEN LET es == SelectSeq(sio_log[req[p].session_id],
                             LAMBDA e : e.by = p /\ e.entry_type = "dm")
         IN [i \in 1..Len(es) |-> Tail(es[i].message)]
    ELSE LET es == SelectSeq(srv_sessions[req[p].session_id].session_log, LAMBDA e : e.by = p)
         IN [i \in 1..Len(es) |-> es[i].dm]
FoundPendingRoll(p) == req[p].kind \in {"srv", "rest"} /\ found_epoch[p] # 0
ResolvedBy(p) == \E c \in gen_calls : c.by = p /\ c.roll_result # 0

\* C1: every handler that has emitted dm_response_start to its room
\* eventually emits dm_response_end to it, whether the stream completes,
\* fails after some chunks, or the result fails to parse or persist.
C1_StartLeadsToEnd ==
    \A p \in Procs : EmittedBy(p, "dm_response_start") ~> EmittedBy(p, "dm_response_end")
C1_Witness ==
    \E p \in Procs : /\ failed[p] /\ produced[p] > 0
                     /\ EmittedBy(p, "dm_response_start")
                     /\ EmittedBy(p, "dm_response_end")
                     /\ EmittedBy(p, "error")

\* C2 (as claimed): at any time at most one generation cycle is open in a
\* room: no handler emits dm_response_start between the dm_response_start
\* and the dm_response_end of another handler of the same room.
C2_OneOpenCyclePerRoom ==
    \A room \in Rooms : Cardinality({p \in Procs : OpenCycle(p, room)}) <= 1

\* C3 (as claimed): a cycle that has relayed chunks and completed without
\* failure has persisted exactly one 'dm' log entry, whose text is the
\* concatenation in order of the chunks relayed.
C3_OneDmEntryPerCycle ==
    \A p \in Procs :
        (/\ pc[p] = "done" /\ ~failed[p]
         /\ EmittedBy(p, "dm_response_start") /\ EmittedBy(p, "dm_chunk"))
        => DmEntriesBy(p) = <<ChunksRelayedBy(p)>>

\* C4 (as claimed): an action without a roll outcome that arrives while the
\* session holds an open pending roll is rejected with an error, starts no
\* generation cycle, and leaves the pending roll as it was.
C4_FreshActionRejectedWhileAwaitingRoll ==
    \A p \in Procs :
        (FoundPendingRoll(p) /\ req[p].roll_result = 0) =>
            /\ pc[p] = "rejected"
            /\ "error" \in {sender_events[p][i] : i \in 1..Len(sender_events[p])}
            /\ ~EmittedBy(p, "dm_response_start")
            /\ \A c \in gen_calls : c.by # p

\* C5 (as claimed, on the action of Scenario B): an action that needs a roll,
\* submitted to a session with no pending roll, emits no dm_response_start,
\* dm_chunk or dm_response_end; once handled, the pending roll holds the
\* action and roll_request was broadcast.
C5_RollNeededShortCircuits ==
    \A p \in Procs :
        (req[p].kind = "srv" /\ req[p].message = <<"attack">> /\ pc[p] # "rejected"
         /\ ~FoundPendingRoll(p)) =>
            /\ ~EmittedBy(p, "dm_response_start")
            /\ ~EmittedBy(p, "dm_chunk")
            /\ ~EmittedBy(p, "dm_response_end")
            /\ pc[p] \in Terminal =>
                  /\ EmittedBy(p, "roll_request")
                  /\ roll_opens = 0 =>
                        OriginalAction(srv_sessions[req[p].session_id].state_snapshot) = <<"attack">>

\* C6 (as claimed): a handler that received a roll outcome r while a pending
\* roll was open has, when it returns, left the pending roll empty, called
\* the generation on the original action with the roll result r in the
\* context, and emitted dm_response_start and dm_response_end.
C6_RollOutcomeResolves ==
    \A p \in Procs :
        (FoundPendingRoll(p) /\ req[p].roll_result # 0 /\ pc[p] \in Terminal) =>
            /\ OriginalAction(srv_sessions[req[p].session_id].state_snapshot) = NoText
            /\ GenCall(p, OriginalAction(session_obj[p].state_snapshot),
                       OriginalAction(session_obj[p].state_snapshot), req[p].roll_result)
                   \in gen_calls
            /\ EmittedBy(p, "dm_response_start")
            /\ EmittedBy(p, "dm_response_end")

\* C7 (as claimed): two concurrent handlers never both resolve the same open
\* pending roll: at most one of them calls the generation for it.
C7_PendingRollResolvedOnce ==
    \A p, q \in Procs :
        (p # q /\ FoundPendingRoll(p) /\ FoundPendingRoll(q) /\ found_epoch[p] = found_epoch[q])
        => ~(ResolvedBy(p) /\ ResolvedBy(q))

\* C8: a join by a player who is already a member of the session changes no
\* membership and broadcasts no second player_joined; per (session, player)
\* at most one player_joined is broadcast per period of membership.
C8_DuplicateJoinIsSilent ==
    /\ \A sp \in DOMAIN joined_broadcasts : joined_broadcasts[sp] <= 1
    /\ (lastOp.op = "join" /\ lastOp.was_member) =>
          /\ ~lastOp.changed
          /\ "player_joined" \notin Names(lastEmitted)

\* C8 witness: the handler that ran last is a join by a player already in the
\* membership of that session, issued over the other connection.
C8_Witness ==
    /\ lastOp.op = "join" /\ lastOp.was_member
    /\ socketio_connections["sidA"] = socketio_connections["sidB"]
    /\ joined_broadcasts[<<lastOp.session_id, lastOp.player_id>>] = 1

\* C9 (as claimed): after leave_session or a disconnect by a connection that
\* joined session s as player p, p is not in the membership of s and
\* player_left for p was broadcast to room s with the membership list.
C9_LeaveRemovesAndBroadcasts ==
    /\ (lastOp.op = "leave" /\ <<lastOp.session_id, lastOp.player_id>> \in lastOp.joined) =>
          /\ lastOp.player_id \notin active_players[lastOp.session_id]
          /\ \E i \in 1..Len(lastEmitted) :
                lastEmitted[i] = Ev("player_left", lastOp.session_id, lastOp.player_id)
          /\ "active_players" \in Names(lastEmitted)
    /\ lastOp.op = "disconnect" =>
          \A sp \in lastOp.joined :
              /\ sp[2] \notin active_players[sp[1]]
              /\ \E i \in 1..Len(lastEmitted) : lastEmitted[i] = Ev("player_left", sp[1], sp[2])
              /\ "active_players" \in Names(lastEmitted)

\* A request that fails one of the validations of send_message.
FailsValidation(r) ==
    /\ r.kind \in {"sio", "srv"}
    /\ \/ ~HasRequiredFields(r)
       \/ r.player_id \notin DOMAIN PlayerRows
       \/ PlayerRows[r.player_id] # r.campaign_id
       \/ r.session_id = UnknownSession
RowsBy(p, rows) == SelectSeq(rows, LAMBDA row : row.by = p)

\* C10 (as claimed): a send_message that fails validation (a missing field,
\* an unknown player, a player of another campaign, an unknown session) gets
\* an error event once handled and leaves no PlayerAction row, no log entry,
\* no graph node or edge, no broadcast and no generation call behind.
C10_ValidationFailureMutatesNothing ==
    \A p \in Procs :
        (FailsValidation(req[p]) /\ pc[p] # "idle") =>
            /\ sender_events[p] = <<"error">>
            /\ RowsBy(p, sio_player_actions) = <<>>
            /\ RowsBy(p, srv_player_actions) = <<>>
            /\ \A s \in DOMAIN sio_log : RowsBy(p, sio_log[s]) = <<>>
            /\ \A s \in SrvSessionIds : RowsBy(p, srv_sessions[s].session_log) = <<>>
            /\ \A room \in Rooms : SelectSeq(room_events[room], LAMBDA e : e.by = p) = <<>>
            /\ \A c \in gen_calls : c.by # p

\* C11 (as claimed): a cycle whose generation stream failed still ends with
\* dm_response_end, persists no 'dm' entry (no partial text, no error or
\* apology text), and keeps the player's action on record.
StreamFailed(p) == gen_state[p] = "failed"
ActionOnRecord(p) ==
    IF req[p].kind = "sio"
    THEN \E i \in 1..Len(sio_log[req[p].session_id]) :
            LET e == sio_log[req[p].session_id][i] IN e.by = p /\ e.entry_type = "player"
    ELSE RowsBy(p, srv_player_actions) # <<>>
C11_FailedCyclePersistsNoNarrative ==
    \A p \in Procs :
        (StreamFailed(p) /\ pc[p] = "done") =>
            /\ EmittedBy(p, "dm_response_end")
            /\ DmEntriesBy(p) = <<>>
            /\ ActionOnRecord(p)

\* C12 (as claimed): is_triggered of a segment never returns from true to
\* false, so it changes from false to true at most once.
C12_TriggeredIsSingleShot ==
    [][\A seg \in SegmentIds : segments[seg] => segments'[seg]]_vars

\* The segments whose trigger condition the submitted action meets.
ConditionMet == SegmentIds
SegmentEvents(seg) ==
    UNION {{<<room, i>> : i \in {j \in 1..Len(room_events[room]) :
                                    room_events[room][j].name = "segment_triggered"}} :
           room \in Rooms}
SegmentLogEntries(seg) ==
    UNION {{<<s, i>> : i \in {j \in 1..Len(sio_log[s]) :
                                 /\ sio_log[s][j].entry_type = "dm"
                                 /\ sio_log[s][j].message = <<"**Segment Triggered**">>}} :
           s \in DOMAIN sio_log}
Evaluated(p, seg) ==
    /\ req[p].kind = "sio" /\ pc[p] \in {"sio_streaming", "done"}
    /\ SegmentCampaign[seg] = req[p].campaign_id

\* C13 (as claimed): once handlers have evaluated a segment whose condition
\* is met, however many of them ran concurrently, exactly one
\* segment_triggered broadcast and one 'Segment Triggered' log entry exist.
C13_MatchingSegmentFiresOnce ==
    \A seg \in ConditionMet :
        (\E p \in Procs : Evaluated(p, seg)) =>
            /\ Cardinality(SegmentEvents(seg)) = 1
            /\ Cardinality(SegmentLogEntries(seg)) = 1

\* C14 (as claimed): once the concurrent interactions on a session have
\* finished, the log of the session holds the entry of every one that
\* wrote; no write removes what another committed.
WroteLog(p) ==
    /\ req[p].kind \in {"srv", "rest"} /\ pc[p] = "done"
    /\ dm_response_text[p] # NoText /\ ~failed[p]
C14_LogKeepsEveryEntry ==
    /\ \A p \in Procs :
          WroteLog(p) => RowsBy(p, srv_sessions[req[p].session_id].session_log) # <<>>

\* Sessions other than the one an action id is recorded under.
ActionOfOtherSession(G, action_id, session_id) ==
    \E a \in G.actions : a.action_id = action_id /\ a.session_id # session_id
EdgeWeight(G, action_id, plotpoint_id) ==
    LET es == {e \in G.impacts : e.action_id = action_id /\ e.plotpoint_id = plotpoint_id}
    IN IF es = {} THEN 0 ELSE (CHOOSE e \in es : TRUE).weight
VolatilityOf(G, plotpoint_id) ==
    (CHOOSE n \in G.plotpoints : n.plotpoint_id = plotpoint_id).volatility
RECURSIVE SumPairs(_, _)
SumPairs(G, pairs) ==
    IF pairs = {} THEN 0
    ELSE LET pr == CHOOSE pr \in pairs : TRUE
         IN (IF EdgeWeight(G, pr[1], pr[2]) = 0 THEN 0
             ELSE EdgeWeight(G, pr[1], pr[2]) * VolatilityOf(G, pr[2]))
            + SumPairs(G, pairs \ {pr})
ActionsOf(G, session_id) == {a.action_id : a \in {x \in G.actions : x.session_id = session_id}}
\* ---- C16: the momentum of a session is the sum of weight x volatility
\* over the IMPACTS edges that leave the session's actions, and 0 when
\* the session has no such edge.
C16_MomentumIsWeightedSum ==
    \A s \in GraphSessions :
        /\ calculate_session_momentum(TheGraph, s) =
              SumPairs(TheGraph, ActionsOf(TheGraph, s) \X PlotPointIds)
        /\ (\A e \in graph_impacts : e.action_id \notin ActionsOf(TheGraph, s)) =>
              calculate_session_momentum(TheGraph, s) = 0
\* One session with edges to both plot points, the other with actions but no edge.
C16_Witness ==
    /\ calculate_session_momentum(TheGraph, 1) >= 4
    /\ \E e1 \in graph_impacts, e2 \in graph_impacts :
          /\ e1.action_id \in ActionsOf(TheGraph, 1) /\ e2.action_id \in ActionsOf(TheGraph, 1)
          /\ e1.plotpoint_id # e2.plotpoint_id
    /\ ActionsOf(TheGraph, 2) # {}
    /\ calculate_session_momentum(TheGraph, 2) = 0

\* What a decay by a rate must leave of an edge set: every weight lowered
\* by the rate, the edges that reach zero or less gone.
Decayed(impacts, decay_rate) ==
    {[e EXCEPT !.weight = @ - decay_rate] : e \in {x \in impacts : x.weight - decay_rate > 0}}
\* ---- C17: a decay pass lowers the weight of every IMPACTS edge by the
\* rate and deletes each edge whose weight is then zero or less (an edge
\* that lands exactly on zero too); an edge that starts below twice the
\* rate is gone after two passes.
C17_DecayDeletesSpentEdges ==
    \A rate \in DecayRates : \A G1 \in decay_relationships(TheGraph, rate) :
        /\ G1.impacts = Decayed(graph_impacts, rate)
        /\ \A G2 \in decay_relationships(G1, rate) :
              \A e \in graph_impacts : e.weight < 2 * rate =>
                  EdgeWeight(G2, e.action_id, e.plotpoint_id) = 0
                  /\ ~\E x \in G2.impacts : x.action_id = e.action_id
                                            /\ x.plotpoint_id = e.plotpoint_id

\* The momentum a session puts on one plot point.
MomentumOn(G, session_id, plotpoint_id) ==
    SumPairs(G, ActionsOf(G, session_id) \X {plotpoint_id})
OnePerId(nodes, key) == \A n \in nodes, m \in nodes : n[key] = m[key] => n = m
OtherNodes(nodes, key, id) == {n \in nodes : n[key] # id}
NodesWithId(nodes, key, id) == nodes \ OtherNodes(nodes, key, id)
Min(a, b) == IF a < b THEN a ELSE b
\* The last k elements of a sequence.
LastOf(seq, k) == SubSeq(seq, Len(seq) - k + 1, Len(seq))
\* ---- C20: after n add operations on a buffer of capacity c the buffer
\* holds exactly the last min(n, c) events added, in insertion order; its
\* length never exceeds c.
C20_BufferHoldsLastEvents ==
    /\ buffer = LastOf(added, Min(Len(added), capacity))
    /\ Len(buffer) <= capacity
\* More events were added than the buffer holds, and the evicted one
\* differs from the ones kept.
C20_Witness ==
    /\ capacity = 2
    /\ added = <<"e1", "e2", "e2", "e1">>
    /\ buffer = <<"e2", "e1">>

\* The directives of the three bands; the neutral one is the style guide
\* the context engine has.
HighIntensityDirective == "high-intensity"
AtmosphericDirective == "atmospheric"
NeutralDirective == ClassicalTone
\* ---- C21: the style directive of the assembled context follows the
\* session's momentum: above 7.5 the high-intensity directive, below 3
\* the atmospheric one, the neutral one in between (momentum in units of
\* 1, so 7.5 is compared as 2 * momentum > 15).
C21_StyleFollowsMomentum ==
    \A s \in GraphSessions :
        LET momentum == calculate_session_momentum(TheGraph, s) IN
        _get_narrative_style_prefs(TheGraph, s) =
            IF 2 * momentum > 15 THEN HighIntensityDirective
            ELSE IF momentum < 3 THEN AtmosphericDirective
            ELSE NeutralDirective

\* A text from which structure can be extracted carries a marker.
HasStructure(raw) == \E i \in 1..Len(raw) : raw[i] \in {"[ACTION]", "[TRIGGER]"}
\* ---- C22: structuring a raw text never fails: the envelope's fallback
\* is the input verbatim, and for an input from which no structure can
\* be extracted the primary narrative, the mechanics hooks, the trigger
\* hooks and the entity mentions are all empty.
C22_FallbackOnlyWhenUnstructured ==
    /\ structured.fallback = raw_llm_output
    /\ ~HasStructure(raw_llm_output) =>
          /\ structured.primary = NoText
          /\ structured.mechanics = <<>>
          /\ structured.triggers = <<>>
          /\ structured.entities = <<>>


\* The connection received the event the handler emitted under a name.
Got(sid, p, name) == \E d \in delivered[sid] : d.by = p /\ d.name = name
\* The connection is in the room of the session now.
Member(sid, session_id) == InRoom(sid, session_id, connected, rooms)
RecordedInGraph(p) ==
    graph_on => \E row \in {sio_player_actions[i] : i \in 1..Len(sio_player_actions)} :
                    /\ row.by = p
                    /\ [action_id |-> row.action_id, session_id |-> row.session_id] \in graph_actions
Recorded(p) == RecordedInGraph(p) /\ ActionOnRecord(p)
\* ---- C24: for an accepted action the steps come in this order: the
\* action is recorded in the graph and in the log, then it is broadcast
\* to the room without the sender, then the segments are evaluated, then
\* the cycle opens: no action-broadcast and no generation-start without
\* the recorded action, the broadcast before the start, and no
\* action-broadcast to its own sender.
C24_RecordedThenBroadcastThenCycle ==
    \A p \in Procs : req[p].kind = "sio" =>
        LET room == <<"sio", req[p].session_id>>
            evs == room_events[room]
        IN
        /\ EventsBy(room, p, "new_message") # <<>> => Recorded(p)
        /\ EventsBy(room, p, "dm_response_start") # <<>> => Recorded(p)
        /\ \A i \in 1..Len(evs) : (evs[i].by = p /\ evs[i].name = "dm_response_start") =>
              \E j \in 1..(i - 1) : evs[j].by = p /\ evs[j].name = "new_message"
        /\ ~Got(SenderOf[p], p, "new_message")

\* ---- C25: after end_session succeeded the state snapshot of the
\* session is a JSON object with recap and ended_at that still has the
\* pending_roll field (an object or empty).
C25_EndedSnapshotKeepsPendingRoll ==
    \A s \in SrvSessionIds :
        srv_sessions[s].state_snapshot.has_recap =>
            /\ ~srv_sessions[s].state_snapshot.null
            /\ srv_sessions[s].state_snapshot.has_pending_roll

\* A step of join, leave, disconnect or send_message.
CoreHandled == roomVars' # roomVars \/ procVars' # procVars
IsPrefix(old, new) == Len(old) <= Len(new) /\ SubSeq(new, 1, Len(old)) = old
\* ---- C26: handling join, leave, disconnect and send_message changes no
\* field of a World, Campaign or Player row; PlayerAction rows and
\* SessionLogEntry rows are only appended.
C26_CoreLeavesEntitiesAlone ==
    [][CoreHandled =>
          /\ entity_rows' = entity_rows
          /\ IsPrefix(sio_player_actions, sio_player_actions')
          /\ IsPrefix(srv_player_actions, srv_player_actions')
          /\ \A s \in DOMAIN sio_log : IsPrefix(sio_log[s], sio_log'[s])]_vars
\* A handler ran to its end and a connection came and went, after the
\* campaign was edited through its endpoint.
C26_Witness ==
    /\ pc["h1"] = "done"
    /\ sio_player_actions # <<>>
    /\ lastOp.op = "disconnect" /\ lastOp.changed
    /\ entity_rows.campaign_current_quest = "q1"


\* A connected socket whose record in socketio_connections is (session, player).
LiveJoin(sid, session_id, player_id) ==
    sid \in connected /\ socketio_connections[sid] = <<session_id, player_id>>
\* ---- C27: a player is listed in active_players[s] only if a connected
\* socket is recorded in socketio_connections as joined to (s, player):
\* no membership entry is left that no live connection accounts for.
C27_MembershipHasLiveConnection ==
    \A s \in SessionIds : \A player \in active_players[s] :
        \E sid \in Sids : LiveJoin(sid, s, player)


\* ---- C28: a player with a row in the entity store who has a connected
\* socket recorded as joined to (s, player) is listed in
\* active_players[s]: the leave or the disconnect of one of two sockets
\* of the player does not take the player out while the other remains.
C28_LiveConnectionKeepsMembership ==
    \A sid \in Sids, s \in SessionIds, player \in DOMAIN PlayerRows :
        LiveJoin(sid, s, player) => player \in active_players[s]


\* The 'player' log entries a handler of sio wrote.
PlayerEntriesBy(p) ==
    SelectSeq(sio_log[req[p].session_id], LAMBDA e : e.by = p /\ e.entry_type = "player")
\* ---- C29: a send_message that passed validation, once handled, has
\* appended exactly one PlayerAction row and exactly one 'player' log
\* entry, whether the graph update and the generation succeeded or not.
C29_OneRowAndOneEntryPerAction ==
    \A p \in Procs :
        (req[p].kind = "sio" /\ ~FailsValidation(req[p]) /\ pc[p] \in {"done", "crashed"}) =>
            /\ Len(RowsBy(p, sio_player_actions)) = 1
            /\ Len(PlayerEntriesBy(p)) = 1


\* The room-addressed events of the last join, leave or disconnect.
LastRoomEvents == {lastEmitted[i] : i \in {j \in 1..Len(lastEmitted) : lastEmitted[j].name # "error"}}
\* ---- C30: room isolation: every room-addressed event produced while
\* join, leave, disconnect or send_message is handled for session s goes
\* to room s only, so a connection receives no event of a session it
\* never joined, however the handlers of different sessions interleave.
C30_RoomIsolation ==
    /\ \A sid \in Sids : \A d \in delivered[sid] :
          /\ d.room \in ever_joined[sid]
          /\ d.by \in Procs => d.room = req[d.by].session_id
    /\ \A p \in Procs, room \in Rooms :
          (\E i \in 1..Len(room_events[room]) : room_events[room][i].by = p)
              => room = <<"sio", req[p].session_id>>
    /\ \A e \in LastRoomEvents : e.room = lastOp.session_id
\* Both handlers ran to their end, one connection in each room: each
\* connection got the chunk of its own session's handler only.
C30_Witness ==
    /\ pc["h1"] = "done" /\ pc["h2"] = "done"
    /\ ever_joined["sidA"] = {2} /\ ever_joined["sidB"] = {1}
    /\ Got("sidA", "h2", "dm_chunk") /\ ~Got("sidA", "h1", "dm_chunk")
    /\ Got("sidB", "h1", "dm_chunk") /\ ~Got("sidB", "h2", "dm_chunk")
    /\ Got("sidB", "h1", "new_message")

====
